---- MODULE Spec2Model ----
(***************************************************************************)
(* Model of the Paume_ quiz: the flat-file question loader and its         *)
(* QuestionManager (questions_loader.py), the ImageButton widget           *)
(* (image_button.py) and the MainWindow game board (main.py).              *)
(***************************************************************************)
EXTENDS Integers, Sequences, FiniteSets, TLC

VARIABLES
    questions_root,             \* the questions folder on disk when the program starts
    all_questions,              \* QuestionManager.all_questions
    used_questions,             \* QuestionManager.used_questions
    last_call,                  \* last get_random_question call and its return value
    asked,                      \* the questions get_random_question returned, in order
    all_buttons,                \* MainWindow.all_buttons (info dict + its ImageButton)
    clicked_buttons,            \* MainWindow.clicked_buttons
    last_clicked_button_index,  \* MainWindow.last_clicked_button_index
    show_domains,               \* MainWindow.show_domains
    validate_btn,               \* MainWindow.validate_btn (enabled flag)
    domain_checkbox             \* MainWindow.domain_checkbox (checked flag, text)

vars == <<questions_root, all_questions, used_questions, last_call, asked,
          all_buttons, clicked_buttons, last_clicked_button_index, show_domains,
          validate_btn, domain_checkbox>>

qm_vars == <<questions_root, all_questions, used_questions, last_call, asked>>
gui_vars == <<all_buttons, clicked_buttons, last_clicked_button_index,
              show_domains, validate_btn, domain_checkbox>>

----------------------------------------------------------------------------
(* Bounds of the model *)

\* tiles 0..MaxTile-1 are the ones the user clicks
MaxTile == 2
\* tiles 0..MaxMouseTile-1 are the ones the mouse pointer visits
MaxMouseTile == 1
\* number of states of the random generator that are explored
NumSeeds == 2

----------------------------------------------------------------------------
(* Program constants *)

NB_USER1 == 6
NB_USER2 == 6
NB_MALUS == 2
NB_BONUS == 2
NB_NEUTRE == 4

USER1_NAME == "Joueur 1"
USER2_NAME == "Joueur 2"

\* Python's None, as a question and as a button index
None == "<None>"
NoIndex == 0 - 1

category_names == <<"user1", "user2", "malus", "bonus", "neutre">>

COLORS == [user1_base |-> "#3498DB", user1_hover |-> "#5DADE2",
           user2_base |-> "#E74C3C", user2_hover |-> "#EC7063",
           malus_base |-> "#8E44AD", malus_hover |-> "#A569BD",
           bonus_base |-> "#F39C12", bonus_hover |-> "#F7DC6F",
           neutre_base |-> "#1ABC9C", neutre_hover |-> "#48C9B0"]

----------------------------------------------------------------------------
(* questions_loader.py *)

Range(s) == {s[i] : i \in 1..Len(s)}

RECURSIVE Flatten(_)
\* questions.extend(...) over a sequence of lists
Flatten(ss) == IF ss = <<>> THEN <<>> ELSE Head(ss) \o Flatten(Tail(ss))

\* A question file is [readable, chunks]: chunks is content.split("\n\n"),
\* each chunk [lead, body, trail] = leading blanks, stripped text, trailing blanks.
Strip(chunk) == chunk.body

RECURSIVE ParseChunks(_)
ParseChunks(chunks) ==
    IF chunks = <<>> THEN <<>>
    ELSE LET cleaned == Strip(Head(chunks))
         IN  (IF cleaned # "" THEN <<cleaned>> ELSE <<>>) \o ParseChunks(Tail(chunks))

\* _parse_question_file: an unreadable file raises in open/read, before any append
_parse_question_file(file) ==
    IF ~file.readable THEN <<>> ELSE ParseChunks(file.chunks)

\* the questions of all the *.txt files of a folder, in glob order
FolderQuestions(files) ==
    Flatten([i \in 1..Len(files) |-> _parse_question_file(files[i])])

RECURSIVE LoadDomains(_)
\* user1/user2: the sub-folders (sorted) become domains, empty ones are dropped
LoadDomains(entries) ==
    IF entries = <<>> THEN <<>>
    ELSE LET e == Head(entries)
             qs == FolderQuestions(e.files)
         IN  (IF e.is_dir /\ qs # <<>> THEN <<[domain |-> e.name, questions |-> qs]>>
              ELSE <<>>) \o LoadDomains(Tail(entries))

\* One category of the catalog: a dict domain -> questions, kept in insertion
\* order as a sequence of [domain, questions]
LoadCategory(category, dir) ==
    IF ~dir.exists THEN <<>>
    ELSE IF category \in {"malus", "bonus", "neutre"}
         THEN LET qs == FolderQuestions(dir.files)
              IN  IF qs # <<>> THEN <<[domain |-> category, questions |-> qs]>> ELSE <<>>
         ELSE LoadDomains(dir.entries)

\* variant: the category keys are created before the folder is looked for
load_questions_by_category_keys(fs) ==
    [c \in Range(category_names) |->
        IF ~fs.exists THEN <<>> ELSE LoadCategory(c, fs.dirs[c])]

\* load_questions_by_category: fs is the questions folder
load_questions_by_category(fs) ==
    IF ~fs.exists THEN [c \in {} |-> <<>>]
    ELSE [c \in Range(category_names) |-> LoadCategory(c, fs.dirs[c])]

\* dict lookups on one category of the catalog
DomainKeys(cat) == [i \in 1..Len(cat) |-> cat[i].domain]
HasDomain(cat, domain) == \E i \in 1..Len(cat) : cat[i].domain = domain
DomainQuestions(cat, domain) ==
    cat[CHOOSE i \in 1..Len(cat) : cat[i].domain = domain].questions

\* the catalog list of (c, d), empty when the catalog has no such entry
CatalogList(c, d) ==
    IF c \notin DOMAIN all_questions THEN <<>>
    ELSE IF ~HasDomain(all_questions[c], d) THEN <<>>
    ELSE DomainQuestions(all_questions[c], d)

\* variant: the used set is not consulted
Available_unfiltered(catalog, used, category, domain) ==
    DomainQuestions(catalog[category], domain)

\* the questions of a domain that are not in the used set
Available(catalog, used, category, domain) ==
    SelectSeq(DomainQuestions(catalog[category], domain), LAMBDA q : q \notin used)

get_domains(catalog, category) ==
    IF category \notin DOMAIN catalog THEN <<>>
    ELSE DomainKeys(catalog[category])

get_domain_count(catalog, category, domain) ==
    IF category \notin DOMAIN catalog THEN 0
    ELSE IF ~HasDomain(catalog[category], domain) THEN 0
    ELSE Len(DomainQuestions(catalog[category], domain))

get_remaining_count(catalog, used, category, domain) ==
    IF category \notin DOMAIN catalog THEN 0
    ELSE IF ~HasDomain(catalog[category], domain) THEN 0
    ELSE Len(Available(catalog, used, category, domain))

\* the call and its return value, as the caller sees them
Returned(category, domain, ret) ==
    /\ last_call' = [op |-> "get_random_question", category |-> category,
                     domain |-> domain, ret |-> ret]
    /\ asked' = IF ret = None THEN asked ELSE Append(asked, ret)

\* the lookups of get_random_question, up to the choice among the available ones
Lookup(category, domain) ==
    IF category \notin DOMAIN all_questions THEN <<>>
    ELSE IF ~HasDomain(all_questions[category], domain) THEN <<>>
    ELSE Available(all_questions, used_questions, category, domain)

\* variant: the returned question is not added to the used set
get_random_question_noadd(category, domain) ==
    /\ LET available == Lookup(category, domain)
       IN  IF available = <<>> THEN Returned(category, domain, None)
           ELSE \E k \in 1..Len(available) : Returned(category, domain, available[k])
    /\ UNCHANGED <<questions_root, all_questions, used_questions, gui_vars>>

\* variant: an exhausted domain clears the used set before None is returned
get_random_question_reset(category, domain) ==
    /\ LET available == Lookup(category, domain)
       IN  IF available = <<>>
           THEN /\ Returned(category, domain, None)
                /\ used_questions' = IF CatalogList(category, domain) = <<>>
                                     THEN used_questions ELSE {}
           ELSE \E k \in 1..Len(available) :
                   /\ used_questions' = used_questions \cup {available[k]}
                   /\ Returned(category, domain, available[k])
    /\ UNCHANGED <<questions_root, all_questions, gui_vars>>

\* variant: every available question of the domain is marked as used
get_random_question_markall(category, domain) ==
    /\ LET available == Lookup(category, domain)
       IN  IF available = <<>>
           THEN /\ Returned(category, domain, None)
                /\ used_questions' = used_questions
           ELSE \E k \in 1..Len(available) :
                   /\ used_questions' = used_questions \cup Range(available)
                   /\ Returned(category, domain, available[k])
    /\ UNCHANGED <<questions_root, all_questions, gui_vars>>

\* variant: the returned question is removed from the catalog instead of being
\* remembered in the used set
get_random_question_remove(category, domain) ==
    /\ LET available == Lookup(category, domain)
       IN  IF available = <<>>
           THEN /\ Returned(category, domain, None)
                /\ all_questions' = all_questions
           ELSE \E k \in 1..Len(available) :
                   /\ Returned(category, domain, available[k])
                   /\ all_questions' =
                         [all_questions EXCEPT ![category] =
                             [n \in 1..Len(@) |->
                                 IF @[n].domain = domain
                                 THEN [@[n] EXCEPT !.questions =
                                          SelectSeq(@, LAMBDA q : q # available[k])]
                                 ELSE @[n]]]
    /\ UNCHANGED <<questions_root, used_questions, gui_vars>>

\* QuestionManager.get_random_question; random.choice picks any available index
get_random_question(category, domain) ==
    /\ IF category \notin DOMAIN all_questions
       THEN /\ Returned(category, domain, None)
            /\ used_questions' = used_questions
       ELSE IF ~HasDomain(all_questions[category], domain)
       THEN /\ Returned(category, domain, None)
            /\ used_questions' = used_questions
       ELSE LET available == Available(all_questions, used_questions, category, domain)
            IN  IF available = <<>>
                THEN /\ Returned(category, domain, None)
                     /\ used_questions' = used_questions
                ELSE \E k \in 1..Len(available) :
                        /\ used_questions' = used_questions \cup {available[k]}
                        /\ Returned(category, domain, available[k])
    /\ all_questions' = all_questions
    /\ UNCHANGED <<questions_root, gui_vars>>

----------------------------------------------------------------------------
(* image_button.py : ImageButton *)

\* ImageButton.__init__ ; enabled and cursor are the QPushButton's own properties,
\* _tilt_target is the end value of the running tilt animation
NewImageButton(style, text) ==
    [_style |-> style, _text |-> text, _is_disabled |-> FALSE,
     _mouse_inside |-> FALSE, _current_state |-> "normal",
     _tilt_target |-> 0, enabled |-> TRUE, cursor |-> "PointingHand"]

hover_angle == 0 - 3
pressed_angle == 3

_apply_state(b, state) == [b EXCEPT !._current_state = state]

_animate_tilt_to(b, target_angle) == [b EXCEPT !._tilt_target = target_angle]

setText(b, text) == [b EXCEPT !._text = text]

setEnabled(b, flag) == [b EXCEPT !.enabled = flag]

\* variant: the restyled button always goes back to normal
set_style_always_normal(b, style) ==
    _apply_state([b EXCEPT !._style = style], "normal")

set_style(b, style) ==
    _apply_state([b EXCEPT !._style = style],
                 IF ~b._is_disabled THEN "normal" ELSE "disabled")

set_disabled_state(b) ==
    _animate_tilt_to(
        _apply_state([b EXCEPT !._is_disabled = TRUE, !.enabled = FALSE,
                               !.cursor = "Arrow"],
                     "disabled"),
        0)

\* variant: the hover is taken on a disabled button too
enterEvent_unguarded(b) ==
    _animate_tilt_to(_apply_state([b EXCEPT !._mouse_inside = TRUE], "hover"),
                     hover_angle)

enterEvent(b) ==
    IF ~b._is_disabled
    THEN _animate_tilt_to(_apply_state([b EXCEPT !._mouse_inside = TRUE], "hover"),
                          hover_angle)
    ELSE b

leaveEvent(b) ==
    IF ~b._is_disabled
    THEN _animate_tilt_to(_apply_state([b EXCEPT !._mouse_inside = FALSE], "normal"), 0)
    ELSE b

mousePressEvent(b, mouse_button) ==
    IF ~b._is_disabled /\ mouse_button = "LeftButton"
    THEN _animate_tilt_to(_apply_state(b, "pressed"), pressed_angle)
    ELSE b

\* the part of mouseReleaseEvent before super().mouseReleaseEvent
mouseReleaseEvent(b) ==
    IF ~b._is_disabled
    THEN IF b._mouse_inside
         THEN _animate_tilt_to(_apply_state(b, "hover"), hover_angle)
         ELSE _animate_tilt_to(_apply_state(b, "normal"), 0)
    ELSE b

----------------------------------------------------------------------------
(* main.py : MainWindow *)

Tiles == 0..(NB_USER1 + NB_USER2 + NB_MALUS + NB_BONUS + NB_NEUTRE - 1)

\* random.shuffle: the outcome of the k-th shuffle, k being fixed by the state of
\* the random generator and the position of the call; every outcome is a
\* permutation of s (the list cut at a place that depends on k)
Shuffle(s, k) ==
    LET n == Len(s)
    IN  [i \in 1..n |-> s[((i - 1 + k * 11) % n) + 1]]

RECURSIVE ExtendTo(_, _, _)
\* while len(result) < count: result.extend(domains)
ExtendTo(result, domains, count) ==
    IF Len(result) < count THEN ExtendTo(result \o domains, domains, count)
    ELSE result

\* variant: the shuffled list is not cut to count entries
fill_domains_untruncated(domains, count, k) ==
    IF domains = <<>> THEN [i \in 1..count |-> "???"]
    ELSE Shuffle(ExtendTo(domains, domains, count), k)

fill_domains(domains, count, k) ==
    IF domains = <<>> THEN [i \in 1..count |-> "???"]
    ELSE SubSeq(Shuffle(ExtendTo(domains, domains, count), k), 1, count)

Config(category, domain, label) ==
    [category |-> category, domain |-> domain, label |-> label,
     color_base |-> COLORS[category \o "_base"],
     color_hover |-> COLORS[category \o "_hover"]]

\* button_configs of _create_all_buttons / _refresh_buttons, after the shuffle;
\* seed is the state of the random generator when the method is entered
button_configs(catalog, seed) ==
    LET user1_filled == fill_domains(get_domains(catalog, "user1"), NB_USER1, seed)
        user2_filled == fill_domains(get_domains(catalog, "user2"), NB_USER2, seed + 1)
    IN  Shuffle(
            [i \in 1..Len(user1_filled) |-> Config("user1", user1_filled[i], USER1_NAME)]
         \o [i \in 1..Len(user2_filled) |-> Config("user2", user2_filled[i], USER2_NAME)]
         \o [i \in 1..NB_MALUS |-> Config("malus", "malus", "MALUS")]
         \o [i \in 1..NB_BONUS |-> Config("bonus", "bonus", "BONUS")]
         \o [i \in 1..NB_NEUTRE |-> Config("neutre", "neutre", "NEUTRE")],
            seed + 1)

\* _create_all_buttons: all_buttons[idx + 1] is the entry of tile idx
_create_all_buttons(catalog, seed) ==
    LET configs == button_configs(catalog, seed)
    IN  [n \in 1..Len(configs) |->
            [button |-> NewImageButton("default", ToString(n)),
             category |-> configs[n].category,
             domain |-> configs[n].domain,
             label |-> configs[n].label,
             number |-> n,
             style |-> configs[n].category,
             color_base |-> configs[n].color_base,
             color_hover |-> configs[n].color_hover]]

CheckedValue == 2

\* variant: the validated tiles are not skipped
ToggleButtons_all(buttons, clicked, show) ==
    [n \in 1..Len(buttons) |->
        LET info == buttons[n]
        IN  IF show
            THEN [info EXCEPT !.button =
                     setText(set_style(@, info.category),
                             IF info.category \in {"user1", "user2"}
                             THEN info.label \o "\n" \o info.domain
                             ELSE info.label)]
            ELSE [info EXCEPT !.button =
                     setText(set_style(@, "default"), ToString(info.number))]]

\* the loop of _toggle_domains over all_buttons
ToggleButtons(buttons, clicked, show) ==
    [n \in 1..Len(buttons) |->
        LET info == buttons[n]
        IN  IF info.number - 1 \in clicked THEN info
            ELSE IF show
                 THEN [info EXCEPT !.button =
                          setText(set_style(@, info.category),
                                  IF info.category \in {"user1", "user2"}
                                  THEN info.label \o "\n" \o info.domain
                                  ELSE info.label)]
                 ELSE [info EXCEPT !.button =
                          setText(set_style(@, "default"), ToString(info.number))]]

CheckboxText(show) ==
    IF show THEN "Cacher les domaines" ELSE "Afficher les domaines"

\* the user ticks or unticks the checkbox: stateChanged calls _toggle_domains(state)
_toggle_domains ==
    LET checked == ~domain_checkbox.checked
        state == IF checked THEN CheckedValue ELSE 0
        show == (state = CheckedValue)
    IN  /\ show_domains' = show
        /\ domain_checkbox' = [checked |-> checked, text |-> CheckboxText(show)]
        /\ all_buttons' = ToggleButtons(all_buttons, clicked_buttons, show)
        /\ UNCHANGED <<clicked_buttons, last_clicked_button_index, validate_btn>>
        /\ UNCHANGED qm_vars

\* the effect of _on_button_click(button_index) on a board
ClickButtons(buttons, clicked, button_index) ==
    IF button_index \in clicked THEN buttons
    ELSE [buttons EXCEPT ![button_index + 1].button =
              set_style(@, buttons[button_index + 1].category)]

\* variant: without the early return on a validated tile
_on_button_click_noreturn(button_index) ==
    /\ all_buttons' = [all_buttons EXCEPT ![button_index + 1].button =
                           set_style(@, all_buttons[button_index + 1].category)]
    /\ last_clicked_button_index' = button_index
    /\ validate_btn' = TRUE
    /\ UNCHANGED <<clicked_buttons, show_domains, domain_checkbox>>
    /\ UNCHANGED qm_vars

_on_button_click(button_index) ==
    /\ all_buttons' = ClickButtons(all_buttons, clicked_buttons, button_index)
    /\ IF button_index \in clicked_buttons
       THEN UNCHANGED <<last_clicked_button_index, validate_btn>>
       ELSE /\ last_clicked_button_index' = button_index
            /\ validate_btn' = TRUE
    /\ UNCHANGED <<clicked_buttons, show_domains, domain_checkbox>>
    /\ UNCHANGED qm_vars

\* variant: the validated set is replaced by the validated tile
_validate_current_question_forgets ==
    /\ IF last_clicked_button_index = NoIndex
       THEN UNCHANGED <<all_buttons, clicked_buttons, last_clicked_button_index,
                        validate_btn>>
       ELSE LET button_index == last_clicked_button_index
            IN  /\ clicked_buttons' = {button_index}
                /\ all_buttons' = [all_buttons EXCEPT ![button_index + 1].button =
                                       set_disabled_state(@)]
                /\ last_clicked_button_index' = NoIndex
                /\ validate_btn' = FALSE
    /\ UNCHANGED <<show_domains, domain_checkbox>>
    /\ UNCHANGED qm_vars

_validate_current_question ==
    /\ IF last_clicked_button_index = NoIndex
       THEN UNCHANGED <<all_buttons, clicked_buttons, last_clicked_button_index,
                        validate_btn>>
       ELSE LET button_index == last_clicked_button_index
            IN  /\ clicked_buttons' = clicked_buttons \cup {button_index}
                /\ all_buttons' = [all_buttons EXCEPT ![button_index + 1].button =
                                       set_disabled_state(@)]
                /\ last_clicked_button_index' = NoIndex
                /\ validate_btn' = FALSE
    /\ UNCHANGED <<show_domains, domain_checkbox>>
    /\ UNCHANGED qm_vars

\* variant: the buttons are not enabled again
ReassignButtons_noenable(buttons, configs) ==
    [n \in 1..Len(buttons) |->
        IF n > Len(configs) THEN buttons[n]
        ELSE [buttons[n] EXCEPT
                !.category = configs[n].category,
                !.domain = configs[n].domain,
                !.label = configs[n].label,
                !.style = configs[n].category,
                !.color_base = configs[n].color_base,
                !.color_hover = configs[n].color_hover,
                !.button = setText(set_style(@, "default"), ToString(n))]]

\* the reassignment loop of _refresh_buttons, over the existing buttons
ReassignButtons(buttons, configs) ==
    [n \in 1..Len(buttons) |->
        IF n > Len(configs) THEN buttons[n]
        ELSE [buttons[n] EXCEPT
                !.category = configs[n].category,
                !.domain = configs[n].domain,
                !.label = configs[n].label,
                !.style = configs[n].category,
                !.color_base = configs[n].color_base,
                !.color_hover = configs[n].color_hover,
                !.button = setEnabled(setText(set_style(@, "default"), ToString(n)), TRUE)]]

\* variant: the validate button is left as it is
_refresh_buttons_keepvalidate(seed) ==
    /\ clicked_buttons' = {}
    /\ last_clicked_button_index' = NoIndex
    /\ validate_btn' = validate_btn
    /\ domain_checkbox' = IF domain_checkbox.checked
                          THEN [checked |-> FALSE, text |-> CheckboxText(FALSE)]
                          ELSE domain_checkbox
    /\ show_domains' = IF domain_checkbox.checked THEN FALSE ELSE show_domains
    /\ all_buttons' =
          ReassignButtons(IF domain_checkbox.checked
                          THEN ToggleButtons(all_buttons, {}, FALSE)
                          ELSE all_buttons,
                          button_configs(all_questions, seed))
    /\ UNCHANGED qm_vars

\* domain_checkbox.setChecked(False) emits stateChanged only when it was checked,
\* and _toggle_domains(0) then runs with clicked_buttons already cleared
_refresh_buttons(seed) ==
    /\ clicked_buttons' = {}
    /\ last_clicked_button_index' = NoIndex
    /\ validate_btn' = FALSE
    /\ domain_checkbox' = IF domain_checkbox.checked
                          THEN [checked |-> FALSE, text |-> CheckboxText(FALSE)]
                          ELSE domain_checkbox
    /\ show_domains' = IF domain_checkbox.checked THEN FALSE ELSE show_domains
    /\ all_buttons' =
          ReassignButtons(IF domain_checkbox.checked
                          THEN ToggleButtons(all_buttons, {}, FALSE)
                          ELSE all_buttons,
                          button_configs(all_questions, seed))
    /\ UNCHANGED qm_vars

\* The mouse handlers of tile i, called in any order
EnterTile(i) ==
    /\ all_buttons' = [all_buttons EXCEPT ![i + 1].button = enterEvent(@)]
    /\ UNCHANGED <<clicked_buttons, last_clicked_button_index, show_domains,
                   validate_btn, domain_checkbox>>
    /\ UNCHANGED qm_vars

LeaveTile(i) ==
    /\ all_buttons' = [all_buttons EXCEPT ![i + 1].button = leaveEvent(@)]
    /\ UNCHANGED <<clicked_buttons, last_clicked_button_index, show_domains,
                   validate_btn, domain_checkbox>>
    /\ UNCHANGED qm_vars

PressTile(i, mouse_button) ==
    /\ all_buttons' = [all_buttons EXCEPT ![i + 1].button =
                           mousePressEvent(@, mouse_button)]
    /\ UNCHANGED <<clicked_buttons, last_clicked_button_index, show_domains,
                   validate_btn, domain_checkbox>>
    /\ UNCHANGED qm_vars

\* mouseReleaseEvent of tile i; super().mouseReleaseEvent emits clicked (fires)
\* when the toolkit saw a full left click on the enabled button
ReleaseTile(i, fires) ==
    /\ fires => all_buttons[i + 1].button.enabled
    /\ LET released == [all_buttons EXCEPT ![i + 1].button = mouseReleaseEvent(@)]
       IN  IF fires
           THEN /\ all_buttons' = ClickButtons(released, clicked_buttons, i)
                /\ IF i \in clicked_buttons
                   THEN UNCHANGED <<last_clicked_button_index, validate_btn>>
                   ELSE /\ last_clicked_button_index' = i
                        /\ validate_btn' = TRUE
           ELSE /\ all_buttons' = released
                /\ UNCHANGED <<last_clicked_button_index, validate_btn>>
    /\ UNCHANGED <<clicked_buttons, show_domains, domain_checkbox>>
    /\ UNCHANGED qm_vars

----------------------------------------------------------------------------
(* The questions folders the program is started on *)

Chunk(body) == [lead |-> 0, body |-> body, trail |-> 0]
BlankChunk == [lead |-> 2, body |-> "", trail |-> 0]
TxtFile(bodies) == [readable |-> TRUE, chunks |-> [i \in 1..Len(bodies) |-> Chunk(bodies[i])]]
Dir(name, files) == [name |-> name, is_dir |-> TRUE, files |-> files]
NoDir == [exists |-> FALSE, files |-> <<>>, entries |-> <<>>]

\* no questions folder at all
FS_Missing == [exists |-> FALSE, dirs |-> <<>>]

\* Seven user1 domains (more than user1 tiles), two of which share the text
\* "q2", next to a plain file and a folder without questions; four user2 domains
\* (fewer than user2 tiles) with a duplicated question; malus questions spread
\* over two files, with a text that is also a user1 question; a bonus folder
\* whose files give no question; no neutre folder.
FS_Full ==
    [exists |-> TRUE,
     dirs |-> [user1 |-> [exists |-> TRUE, files |-> <<>>,
                          entries |-> <<Dir("culture", <<[readable |-> TRUE,
                                                          chunks |-> <<Chunk("q1"), BlankChunk,
                                                                       Chunk("q2")>>]>>),
                                        Dir("histoire", <<TxtFile(<<"q2">>)>>),
                                        Dir("langues", <<TxtFile(<<"q1">>)>>),
                                        Dir("musique", <<TxtFile(<<"q1">>)>>),
                                        Dir("nature", <<TxtFile(<<"q1">>)>>),
                                        [name |-> "notes.txt", is_dir |-> FALSE, files |-> <<>>],
                                        Dir("sciences", <<TxtFile(<<"q1">>)>>),
                                        Dir("techno", <<TxtFile(<<"q1">>)>>),
                                        Dir("vide", <<TxtFile(<<>>)>>)>>],
               user2 |-> [exists |-> TRUE, files |-> <<>>,
                          entries |-> <<Dir("cinema", <<TxtFile(<<"q3">>)>>),
                                        Dir("jeux", <<TxtFile(<<"q3">>)>>),
                                        Dir("sport", <<TxtFile(<<"q3", "q3">>)>>),
                                        Dir("voyages", <<TxtFile(<<"q3">>)>>)>>],
               malus |-> [exists |-> TRUE,
                          files |-> <<TxtFile(<<"q1">>), TxtFile(<<"q1">>)>>,
                          entries |-> <<>>],
               bonus |-> [exists |-> TRUE,
                          files |-> <<[readable |-> FALSE, chunks |-> <<Chunk("q9")>>],
                                      [readable |-> TRUE, chunks |-> <<BlankChunk>>]>>,
                          entries |-> <<>>],
               neutre |-> NoDir]]

FileSystems == {FS_Missing, FS_Full}

\* the arguments get_random_question is called with
QueryCategories == {"user1", "user2", "malus", "neutre", "autre"}
QueryDomains == {"culture", "histoire", "sport", "jeux", "malus", "neutre", "???"}

\* the calls that are interleaved with the game on the board
GameQueries == {<<"malus", "malus">>, <<"user1", "culture">>}

ClickTiles == 0..(MaxTile - 1)
MouseTiles == 0..(MaxMouseTile - 1)
Seeds == 0..(NumSeeds - 1)

----------------------------------------------------------------------------
(* The program *)

\* MainWindow.__init__: QuestionManager(QUESTIONS_FOLDER), then _create_ui
Init ==
    /\ questions_root \in FileSystems
    /\ all_questions = load_questions_by_category(questions_root)
    /\ used_questions = {}
    /\ last_call = [op |-> "none", category |-> "", domain |-> "", ret |-> None]
    /\ asked = <<>>
    /\ \E seed \in Seeds : all_buttons = _create_all_buttons(all_questions, seed)
    /\ clicked_buttons = {}
    /\ last_clicked_button_index = NoIndex
    /\ show_domains = FALSE
    /\ validate_btn = FALSE
    /\ domain_checkbox = [checked |-> FALSE, text |-> CheckboxText(FALSE)]

\* the game on the board: clicks, validation, domains toggle, refresh, mouse
NextGUI ==
    \/ \E i \in ClickTiles : _on_button_click(i)
    \/ _validate_current_question
    \/ _toggle_domains
    \/ \E seed \in Seeds : _refresh_buttons(seed)
    \/ \E i \in MouseTiles : EnterTile(i)
    \/ \E i \in MouseTiles : LeaveTile(i)
    \/ \E i \in MouseTiles, mb \in {"LeftButton", "RightButton"} : PressTile(i, mb)
    \/ \E i \in MouseTiles, fires \in BOOLEAN : ReleaseTile(i, fires)

SpecGUI == Init /\ [][NextGUI]_vars

\* the game, with calls of the QuestionManager in between
Next ==
    \/ \E q \in GameQueries : get_random_question(q[1], q[2])
    \/ NextGUI

Spec == Init /\ [][Next]_vars

\* the operations of the game without the mouse-over effects: the calls of the
\* QuestionManager, tile clicks, validation, domains toggle and refresh
NextGame ==
    \/ \E q \in GameQueries : get_random_question(q[1], q[2])
    \/ \E i \in ClickTiles : _on_button_click(i)
    \/ _validate_current_question
    \/ _toggle_domains
    \/ \E seed \in Seeds : _refresh_buttons(seed)

SpecGame == Init /\ [][NextGame]_vars

\* the QuestionManager called with every argument, across board refreshes
NextQM ==
    \/ \E c \in QueryCategories, d \in QueryDomains : get_random_question(c, d)
    \/ \E seed \in Seeds : _refresh_buttons(seed)

SpecQM == Init /\ [][NextQM]_vars

----------------------------------------------------------------------------
(* Properties *)

TilesOf(category) == {n \in 1..Len(all_buttons) : all_buttons[n].category = category}

\* every (category, domain) a count can be asked for
AllCategories == QueryCategories \cup DOMAIN all_questions
AllDomains(c) == QueryDomains \cup Range(get_domains(all_questions, c))

Occurrences(q, list) == Cardinality({i \in 1..Len(list) : list[i] = q})

\* C1: the board always holds exactly 20 tiles: 6 user1, 6 user2, 2 malus,
\* 2 bonus and 4 neutre, after construction and after every refresh.
C1_BoardComposition ==
    /\ Len(all_buttons) = 20
    /\ Cardinality(TilesOf("user1")) = 6
    /\ Cardinality(TilesOf("user2")) = 6
    /\ Cardinality(TilesOf("malus")) = 2
    /\ Cardinality(TilesOf("bonus")) = 2
    /\ Cardinality(TilesOf("neutre")) = 4

\* a catalog with more user1 domains than user1 tiles and fewer user2 domains
\* than user2 tiles, on a board that was refreshed after a validation (a greyed
\* tile is enabled again only by a refresh), then validated again, domains shown
C1_Witness ==
    /\ Len(get_domains(all_questions, "user1")) > NB_USER1
    /\ Len(get_domains(all_questions, "user2")) \in 1..(NB_USER2 - 1)
    /\ \E n \in 1..Len(all_buttons) :
          all_buttons[n].button._is_disabled /\ all_buttons[n].button.enabled
    /\ clicked_buttons # {}
    /\ show_domains

\* C2: a click on a tile that is not validated, whose domain still has an unused
\* question, draws one unused question of the tile's category and domain and
\* marks it as used.
C2_ClickDrawsQuestion ==
    [][\A i \in ClickTiles :
          (/\ _on_button_click(i)
           /\ i \notin clicked_buttons
           /\ get_remaining_count(all_questions, used_questions,
                                  all_buttons[i + 1].category,
                                  all_buttons[i + 1].domain) > 0)
          => \E q \in Range(Available(all_questions, used_questions,
                                      all_buttons[i + 1].category,
                                      all_buttons[i + 1].domain)) :
                used_questions' = used_questions \cup {q}]_vars

\* C3: no question text is returned twice by get_random_question, whatever the
\* categories and domains asked and across board refreshes.
C3_NoQuestionTwice ==
    \A i \in 1..Len(asked), j \in 1..Len(asked) : i # j => asked[i] # asked[j]

\* two questions were returned, by calls on different categories
C3_Witness ==
    /\ Len(asked) >= 2
    /\ last_call.ret = asked[Len(asked)]
    /\ \E c \in DOMAIN all_questions : c # last_call.category /\
          \E n \in 1..Len(all_questions[c]) :
             asked[1] \in Range(all_questions[c][n].questions)

\* C4: get_random_question returns None exactly when the category is unknown,
\* the domain is unknown in it, or all the questions of the domain are used;
\* a None return leaves the used set unchanged, any other call returns a question.
C4_NoneExactly ==
    [][\A c \in QueryCategories, d \in QueryDomains :
          get_random_question(c, d) =>
             LET none_case ==
                    \/ c \notin DOMAIN all_questions
                    \/ ~HasDomain(all_questions[c], d)
                    \/ \A q \in Range(CatalogList(c, d)) : q \in used_questions
             IN  /\ (last_call'.ret = None) <=> none_case
                 /\ (last_call'.ret = None) => (used_questions' = used_questions)
                 /\ ~none_case => last_call'.ret \in Range(CatalogList(c, d))]_vars

\* a call on a known domain returned None because the domain is exhausted
C4_Witness ==
    /\ last_call.op = "get_random_question"
    /\ last_call.ret = None
    /\ CatalogList(last_call.category, last_call.domain) # <<>>
    /\ used_questions # {}

\* C5 (as stated): a successful get_random_question leaves get_remaining_count of
\* every other category/domain unchanged.
C5_OtherDomainsUnchanged ==
    [][\A c \in QueryCategories, d \in QueryDomains :
          (get_random_question(c, d) /\ last_call'.ret # None) =>
             \A c2 \in AllCategories : \A d2 \in AllDomains(c2) :
                (<<c2, d2>> # <<c, d>>) =>
                   get_remaining_count(all_questions, used_questions', c2, d2)
                 = get_remaining_count(all_questions, used_questions, c2, d2)]_vars

\* C5 (amended): a successful get_random_question lowers get_remaining_count of
\* every other category/domain by the number of occurrences of the returned
\* text in that domain's list, so a domain without that text is unchanged.
C5_OtherDomainsLoseOccurrences ==
    [][\A c \in QueryCategories, d \in QueryDomains :
          (get_random_question(c, d) /\ last_call'.ret # None) =>
             \A c2 \in AllCategories : \A d2 \in AllDomains(c2) :
                (<<c2, d2>> # <<c, d>>) =>
                   get_remaining_count(all_questions, used_questions', c2, d2)
                 = get_remaining_count(all_questions, used_questions, c2, d2)
                   - Occurrences(last_call'.ret, CatalogList(c2, d2))]_vars

\* a question was returned whose text is in another domain's list as well, while
\* a third domain does not hold it and still has questions left
C5_Witness ==
    /\ last_call.ret # None
    /\ \E c2 \in AllCategories : \E d2 \in AllDomains(c2) :
          /\ <<c2, d2>> # <<last_call.category, last_call.domain>>
          /\ last_call.ret \in Range(CatalogList(c2, d2))
    /\ \E c3 \in AllCategories : \E d3 \in AllDomains(c3) :
          /\ <<c3, d3>> # <<last_call.category, last_call.domain>>
          /\ last_call.ret \notin Range(CatalogList(c3, d3))
          /\ get_remaining_count(all_questions, used_questions, c3, d3) > 0

\* C6: _refresh_buttons resets the game: no validated tile, no pending tile,
\* validate button disabled, domains toggle off, and every tile i shows i+1
\* and accepts clicks.
C6_RefreshResets ==
    [][(\E seed \in Seeds : _refresh_buttons(seed)) =>
          /\ clicked_buttons' = {}
          /\ last_clicked_button_index' = NoIndex
          /\ ~validate_btn'
          /\ ~show_domains'
          /\ ~domain_checkbox'.checked
          /\ \A i \in Tiles :
                /\ all_buttons'[i + 1].button._text = ToString(i + 1)
                /\ all_buttons'[i + 1].button.enabled
                /\ i \notin clicked_buttons']_vars

\* the reset state, reached by a refresh of a board that had a validated tile
C6_Witness ==
    /\ \E n \in 1..Len(all_buttons) :
          all_buttons[n].button._is_disabled /\ all_buttons[n].button.enabled
    /\ clicked_buttons = {}
    /\ last_clicked_button_index = NoIndex
    /\ ~validate_btn
    /\ ~show_domains
    /\ \A i \in Tiles : all_buttons[i + 1].button._text = ToString(i + 1)

\* C7: the visual state of every tile button is normal, hover, pressed or
\* disabled, and it is disabled exactly when set_disabled_state has disabled
\* the button.
C7_VisualState ==
    \A n \in 1..Len(all_buttons) :
       LET b == all_buttons[n].button
       IN  /\ b._current_state \in {"normal", "hover", "pressed", "disabled"}
           /\ (b._current_state = "disabled") <=> b._is_disabled

\* one tile is greyed out and was restyled by a refresh, another one is pressed
C7_Witness ==
    /\ \E n \in 1..Len(all_buttons) :
          /\ all_buttons[n].button._is_disabled
          /\ all_buttons[n].button.enabled
          /\ all_buttons[n].button._current_state = "disabled"
    /\ \E n \in 1..Len(all_buttons) :
          all_buttons[n].button._current_state \in {"pressed", "hover"}

\* C8: no operation changes all_questions: in every reachable state it is the
\* catalog that was loaded when the QuestionManager was built, so get_domains
\* and get_domain_count return what they returned then.
C8_CatalogStatic ==
    LET loaded == load_questions_by_category(questions_root)
    IN  /\ all_questions = loaded
        /\ \A c \in QueryCategories \cup DOMAIN loaded :
              /\ get_domains(all_questions, c) = get_domains(loaded, c)
              /\ \A d \in QueryDomains \cup Range(get_domains(loaded, c)) :
                    get_domain_count(all_questions, c, d)
                  = get_domain_count(loaded, c, d)

\* questions were drawn, a tile validated, the domains shown and the board
\* refreshed, on a non-empty catalog
C8_Witness ==
    /\ used_questions # {}
    /\ clicked_buttons # {}
    /\ show_domains
    /\ \E n \in 1..Len(all_buttons) :
          all_buttons[n].button._is_disabled /\ all_buttons[n].button.enabled

\* C9: with no questions folder the catalog is empty, get_domains returns an
\* empty list and get_random_question returns None for every category, and the
\* board has 20 tiles whose 6 user1 and 6 user2 tiles carry the domain "???".
C9_MissingFolderFallback ==
    ~questions_root.exists =>
       /\ DOMAIN all_questions = {}
       /\ \A c \in QueryCategories : get_domains(all_questions, c) = <<>>
       /\ last_call.op = "get_random_question" => last_call.ret = None
       /\ Len(all_buttons) = 20
       /\ Cardinality(TilesOf("user1")) = 6
       /\ Cardinality(TilesOf("user2")) = 6
       /\ \A n \in TilesOf("user1") \cup TilesOf("user2") :
             all_buttons[n].domain = "???"

\* without a questions folder, get_random_question was called on a user category
C9_Witness ==
    /\ ~questions_root.exists
    /\ last_call.op = "get_random_question"
    /\ last_call.category \in {"user1", "user2"}

\* C10: a question q returned by get_random_question(category, domain) is in
\* the catalog list of that category and domain, was not in the used set, and
\* the used set becomes the old used set plus q.
C10_ReturnedQuestion ==
    [][\A c \in QueryCategories, d \in QueryDomains :
          (get_random_question(c, d) /\ last_call'.ret # None) =>
             /\ last_call'.ret \in Range(CatalogList(c, d))
             /\ last_call'.ret \notin used_questions
             /\ used_questions' = used_questions \cup {last_call'.ret}]_vars

\* a question was returned from a list that holds the same text twice, while
\* another question was already used
C10_Witness ==
    /\ last_call.ret # None
    /\ Occurrences(last_call.ret, CatalogList(last_call.category, last_call.domain)) = 2
    /\ Cardinality(used_questions) >= 2

\* C11: _validate_current_question with a pending tile i adds i to the validated
\* set, disables its button, clears the pending tile and disables the validate
\* button, and leaves the validated/disabled status, text, category and domain
\* of every other tile unchanged; with no pending tile it changes nothing.
C11_ValidateExactlyPending ==
    [][_validate_current_question =>
          IF last_clicked_button_index = NoIndex
          THEN UNCHANGED vars
          ELSE LET i == last_clicked_button_index
               IN  /\ clicked_buttons' = clicked_buttons \cup {i}
                   /\ all_buttons'[i + 1].button._is_disabled
                   /\ ~all_buttons'[i + 1].button.enabled
                   /\ all_buttons'[i + 1].button._current_state = "disabled"
                   /\ last_clicked_button_index' = NoIndex
                   /\ ~validate_btn'
                   /\ \A j \in Tiles \ {i} :
                         /\ (j \in clicked_buttons') <=> (j \in clicked_buttons)
                         /\ all_buttons'[j + 1].button._is_disabled
                               = all_buttons[j + 1].button._is_disabled
                         /\ all_buttons'[j + 1].button.enabled
                               = all_buttons[j + 1].button.enabled
                         /\ all_buttons'[j + 1].button._current_state
                               = all_buttons[j + 1].button._current_state
                         /\ all_buttons'[j + 1].button._text
                               = all_buttons[j + 1].button._text
                         /\ all_buttons'[j + 1].category = all_buttons[j + 1].category
                         /\ all_buttons'[j + 1].domain = all_buttons[j + 1].domain]_vars

\* two tiles were validated one after the other, the second one with the domains
\* shown, and nothing is pending
C11_Witness ==
    /\ Cardinality(clicked_buttons) >= 2
    /\ last_clicked_button_index = NoIndex
    /\ ~validate_btn
    /\ \A i \in clicked_buttons :
          /\ all_buttons[i + 1].button._current_state = "disabled"
          /\ ~all_buttons[i + 1].button.enabled
    /\ \E i \in clicked_buttons :
          all_buttons[i + 1].button._text # ToString(i + 1)

\* C12: a validated tile never becomes the pending tile: _on_button_click on a
\* validated index changes no state, and in every reachable state the pending
\* tile is not in the validated set.
C12_PendingNotValidated ==
    /\ [](last_clicked_button_index \notin clicked_buttons)
    /\ [][\A i \in ClickTiles :
             (i \in clicked_buttons /\ _on_button_click(i)) => UNCHANGED vars]_vars

\* one tile is validated and greyed out, another one was clicked after that
\* and is pending
C12_Witness ==
    /\ clicked_buttons # {}
    /\ \A i \in clicked_buttons : ~all_buttons[i + 1].button.enabled
    /\ last_clicked_button_index \in ClickTiles \ clicked_buttons
    /\ validate_btn

\* C13: in every reachable state the validate button is enabled if and only if
\* there is a pending tile (last_clicked_button_index is not None).
C13_ValidateButtonIffPending ==
    validate_btn <=> (last_clicked_button_index # NoIndex)

\* a tile is pending, with the validate button enabled, on a board that was
\* refreshed after an earlier validation
C13_Witness ==
    /\ validate_btn
    /\ last_clicked_button_index # NoIndex
    /\ clicked_buttons = {}
    /\ \E n \in 1..Len(all_buttons) :
          all_buttons[n].button._is_disabled /\ all_buttons[n].button.enabled

\* C14 (as stated): after a refresh every tile button, the tiles validated before
\* the refresh included, is in the non-disabled normal visual state with the
\* default style and reacts again to hover and press.
C14_RefreshResetsButtons ==
    [][(\E seed \in Seeds : _refresh_buttons(seed)) =>
          \A i \in Tiles :
             LET b == all_buttons'[i + 1].button
             IN  /\ ~b._is_disabled
                 /\ b._current_state = "normal"
                 /\ b._style = "default"
                 /\ enterEvent(b)._current_state = "hover"
                 /\ mousePressEvent(b, "LeftButton")._current_state = "pressed"]_vars

\* C15: set_disabled_state disables a tile button for good: once it has been
\* called on a button, the button is in the disabled visual state after every
\* later enter, leave, press, release and set_style.
C15_DisabledForGood ==
    [][\A n \in 1..Len(all_buttons) :
          all_buttons[n].button._is_disabled =>
             /\ all_buttons'[n].button._is_disabled
             /\ all_buttons'[n].button._current_state = "disabled"]_vars

\* a tile under the mouse was validated, the board was refreshed (set_style) and
\* the domains were shown on it (set_style again): it is still greyed out
C15_Witness ==
    \E i \in MouseTiles :
       LET b == all_buttons[i + 1].button
       IN  /\ b._is_disabled
           /\ b._current_state = "disabled"
           /\ b.enabled
           /\ show_domains
           /\ b._style = all_buttons[i + 1].category

\* C16: _toggle_domains switched on gives every non-validated tile its category
\* style and the text label + domain (user1/user2) or the label alone (malus,
\* bonus, neutre); switched off it gives every non-validated tile the default
\* style and its number; the text and style of validated tiles are unchanged.
C16_ToggleDomains ==
    [][_toggle_domains =>
          \A i \in Tiles :
             LET info == all_buttons[i + 1]
                 b == all_buttons'[i + 1].button
             IN  IF i \in clicked_buttons
                 THEN /\ b._text = info.button._text
                      /\ b._style = info.button._style
                 ELSE IF show_domains'
                      THEN /\ b._style = info.category
                           /\ b._text = IF info.category \in {"user1", "user2"}
                                        THEN info.label \o "\n" \o info.domain
                                        ELSE info.label
                      ELSE /\ b._style = "default"
                           /\ b._text = ToString(i + 1)]_vars

\* the domains are shown: a tile validated before that keeps its number, the
\* other tiles show their label, with the domain on the user1 and user2 tiles
C16_Witness ==
    /\ show_domains
    /\ \E i \in clicked_buttons : all_buttons[i + 1].button._text = ToString(i + 1)
    /\ \E i \in Tiles \ clicked_buttons :
          /\ all_buttons[i + 1].category \in {"user1", "user2"}
          /\ all_buttons[i + 1].domain # "???"
          /\ all_buttons[i + 1].button._text =
                all_buttons[i + 1].label \o "\n" \o all_buttons[i + 1].domain
    /\ \E i \in Tiles \ clicked_buttons :
          /\ all_buttons[i + 1].category \in {"malus", "bonus", "neutre"}
          /\ all_buttons[i + 1].button._text = all_buttons[i + 1].label
          /\ all_buttons[i + 1].button._style = all_buttons[i + 1].category

====
